---- MODULE Spec2Model ----
(***************************************************************************)
(* Model of github.com/zbindenren/csv: createFieldInfos, NewMarshaler and  *)
(* the read loop of Marshaler.Unmarshal (src/csv.go).                      *)
(*                                                                         *)
(* Go strings are modelled as tuples of one-character strings, so that the *)
(* strconv parsers and strings.Contains are computed on the characters.    *)
(* Column positions are 0-based as in Go; a cell record[p] of the code is  *)
(* record[p + 1] here.                                                     *)
(***************************************************************************)
EXTENDS Integers, Sequences, FiniteSets, TLC

VARIABLES
    Lazy,            \* Marshaler.Lazy
    endPointStruct,  \* Marshaler.endPointStruct: the target struct (its fields, tags, types)
    fieldInfos,      \* Marshaler.fieldInfos
    errors,          \* Marshaler.errors (ParseErrors)
    structs,         \* Unmarshal's local structs
    line,            \* Unmarshal's local line
    pc,              \* "loop": inside the for loop; "returned"; "panicked"
    retStructs,      \* first return value of Unmarshal (<<>> is the nil slice)
    retErr,          \* second return value of Unmarshal
    Reader,          \* Marshaler.Reader: the csv.Reader's FieldsPerRecord
    consumed         \* the results m.Reader.Read() has returned so far, in order

vars == <<Lazy, endPointStruct, fieldInfos, errors, structs, line, pc,
          retStructs, retErr, Reader, consumed>>

----------------------------------------------------------------------------
(* Bounds of the model. *)

\* Unmarshal is followed for at most MaxLine reads that return a row or a failure.
MaxLine == 3
\* Rows have at most MaxCols cells.
MaxCols == 3
\* SpecColumns follows Unmarshal for at most MaxColumnsLine such reads.
MaxColumnsLine == 2

----------------------------------------------------------------------------
(* Strings and the strconv parsers. *)

Nil == [type |-> "nil"]

DigitChars == <<"0", "1", "2", "3", "4", "5", "6", "7", "8", "9">>

IsDigit(c) == \E i \in 1..10 : DigitChars[i] = c

DigitVal(c) == (CHOOSE i \in 1..10 : DigitChars[i] = c) - 1

AllDigits(str) == \A i \in 1..Len(str) : IsDigit(str[i])

RECURSIVE DigitsValue(_)
DigitsValue(str) ==
    IF Len(str) = 0 THEN 0
    ELSE 10 * DigitsValue(SubSeq(str, 1, Len(str) - 1)) + DigitVal(str[Len(str)])

\* strings.HasPrefix in place of strings.Contains
ContainsAsPrefix(str, ch) == Len(str) > 0 /\ str[1] = ch

\* strings.Contains(str, "-") for a one-character substring
Contains(str, ch) == \E i \in 1..Len(str) : str[i] = ch

\* a ParseBool that knows the literals "true" and "false" only
ParseBoolTrueFalseOnly(str) ==
    IF str = <<"t", "r", "u", "e">> THEN [value |-> TRUE, err |-> [type |-> "nil"]]
    ELSE IF str = <<"f", "a", "l", "s", "e">> THEN [value |-> FALSE, err |-> [type |-> "nil"]]
    ELSE [value |-> FALSE,
          err |-> [type |-> "*strconv.NumError", Func |-> "ParseBool", Err |-> "ErrSyntax"]]

BoolTrueLiterals ==
    { <<"1">>, <<"t">>, <<"T">>, <<"T", "R", "U", "E">>, <<"t", "r", "u", "e">>,
      <<"T", "r", "u", "e">> }

BoolFalseLiterals ==
    { <<"0">>, <<"f">>, <<"F">>, <<"F", "A", "L", "S", "E">>,
      <<"f", "a", "l", "s", "e">>, <<"F", "a", "l", "s", "e">> }

\* strconv.ParseBool
ParseBool(str) ==
    IF str \in BoolTrueLiterals THEN [value |-> TRUE, err |-> Nil]
    ELSE IF str \in BoolFalseLiterals THEN [value |-> FALSE, err |-> Nil]
    ELSE [value |-> FALSE,
          err |-> [type |-> "*strconv.NumError", Func |-> "ParseBool", Err |-> "ErrSyntax"]]

\* strconv.Atoi: an optional sign and then decimal digits only; more than 18 digits
\* are taken to be outside int64 (the cells of the model have far fewer)
Atoi(str) ==
    LET signed == Len(str) > 0 /\ str[1] \in {"+", "-"}
        digits == IF signed THEN SubSeq(str, 2, Len(str)) ELSE str
        syntax == [value |-> 0,
                   err |-> [type |-> "*strconv.NumError", Func |-> "Atoi", Err |-> "ErrSyntax"]]
    IN  IF Len(digits) = 0 \/ ~AllDigits(digits) THEN syntax
        ELSE IF Len(digits) > 18
             THEN [value |-> 0,
                   err |-> [type |-> "*strconv.NumError", Func |-> "Atoi", Err |-> "ErrRange"]]
        ELSE [value |-> IF signed /\ str[1] = "-" THEN 0 - DigitsValue(digits)
                        ELSE DigitsValue(digits),
              err |-> Nil]

RECURSIVE Pow10(_)
Pow10(n) == IF n = 0 THEN 1 ELSE 10 * Pow10(n - 1)

RECURSIVE NormFloat(_, _)
\* num / 10^scale without trailing zeros of the fraction: equal values, equal records
NormFloat(num, scale) ==
    IF scale > 0 /\ num % 10 = 0 THEN NormFloat(num \div 10, scale - 1)
    ELSE [num |-> num, scale |-> scale]

FloatSpecials ==
    { <<"i", "n", "f">>, <<"I", "n", "f">>, <<"N", "a", "N">>, <<"n", "a", "n">> }

\* strconv.ParseFloat(str, 64) on plain decimal literals: an optional sign, digits
\* with an optional '.', at least one digit; and the special values. A value is the
\* exact decimal num / 10^scale.
ParseFloat(str) ==
    LET signed == Len(str) > 0 /\ str[1] \in {"+", "-"}
        body   == IF signed THEN SubSeq(str, 2, Len(str)) ELSE str
        neg    == signed /\ str[1] = "-"
        dots   == {i \in 1..Len(body) : body[i] = "."}
        dot    == IF dots = {} THEN Len(body) + 1 ELSE CHOOSE i \in dots : TRUE
        ip     == SubSeq(body, 1, dot - 1)
        fp     == SubSeq(body, dot + 1, Len(body))
        syntax == [value |-> [num |-> 0, scale |-> 0],
                   err |-> [type |-> "*strconv.NumError", Func |-> "ParseFloat",
                            Err |-> "ErrSyntax"]]
    IN  IF body \in FloatSpecials
        THEN [value |-> [special |-> body, neg |-> neg], err |-> Nil]
        ELSE IF Cardinality(dots) > 1 \/ Len(ip) + Len(fp) = 0
                \/ ~AllDigits(ip) \/ ~AllDigits(fp)
        THEN syntax
        ELSE LET mag == DigitsValue(ip) * Pow10(Len(fp)) + DigitsValue(fp)
             IN  [value |-> NormFloat(IF neg THEN 0 - mag ELSE mag, Len(fp)), err |-> Nil]

----------------------------------------------------------------------------
(* The target struct and createFieldInfos. *)

\* reflect.Kind of a Go type
Kind(type) ==
    CASE type = "bool"    -> "Bool"
      [] type = "int"     -> "Int"
      [] type = "int8"    -> "Int8"
      [] type = "int16"   -> "Int16"
      [] type = "int32"   -> "Int32"
      [] type = "int64"   -> "Int64"
      [] type = "float32" -> "Float32"
      [] type = "float64" -> "Float64"
      [] type = "string"  -> "String"
      [] OTHER            -> "Uint"

\* the zero value reflect.New gives a field of a Go type
ZeroValue(type) ==
    CASE Kind(type) = "Bool" -> FALSE
      [] Kind(type) \in {"Float32", "Float64"} -> [num |-> 0, scale |-> 0]
      [] Kind(type) = "String" -> <<>>
      [] OTHER -> 0

\* the loop of createFieldInfos without the test of headerNameMap
RECURSIVE createFieldInfosLoopNoMap(_, _, _, _)
createFieldInfosLoopNoMap(s, i, infos, headerNameMap) ==
    IF i > Len(s.fields) THEN [fieldInfos |-> infos, err |-> Nil]
    ELSE LET fieldName  == s.fields[i].name
             headerName == s.fields[i].tag
         IN  IF Contains(headerName, "-")
             THEN createFieldInfosLoopNoMap(s, i + 1, infos, headerNameMap)
             ELSE IF Len(headerName) = 0
             THEN [fieldInfos |-> <<>>,
                   err |-> [type |-> "error", Err |-> "empty csv tag for field",
                            arg |-> fieldName]]
             ELSE createFieldInfosLoopNoMap(s, i + 1,
                      Append(infos, [headerName |-> headerName,
                                     fieldName  |-> fieldName,
                                     position   |-> -1,
                                     kind       |-> Kind(s.fields[i].type)]),
                      headerNameMap)

RECURSIVE createFieldInfosLoop(_, _, _, _)
createFieldInfosLoop(s, i, infos, headerNameMap) ==
    IF i > Len(s.fields) THEN [fieldInfos |-> infos, err |-> Nil]
    ELSE LET fieldName  == s.fields[i].name
             headerName == s.fields[i].tag
         IN  IF Contains(headerName, "-")
             THEN createFieldInfosLoop(s, i + 1, infos, headerNameMap)
             ELSE IF headerName \in headerNameMap
             THEN [fieldInfos |-> <<>>,
                   err |-> [type |-> "error", Err |-> "duplicate csv tag name",
                            arg |-> headerName]]
             ELSE IF Len(headerName) = 0
             THEN [fieldInfos |-> <<>>,
                   err |-> [type |-> "error", Err |-> "empty csv tag for field",
                            arg |-> fieldName]]
             ELSE createFieldInfosLoop(s, i + 1,
                      Append(infos, [headerName |-> headerName,
                                     fieldName  |-> fieldName,
                                     position   |-> -1,
                                     kind       |-> Kind(s.fields[i].type)]),
                      headerNameMap \cup {headerName})

\* createFieldInfos prepending each descriptor instead of appending it
createFieldInfosPrepending(s) ==
    LET r == createFieldInfosLoop(s, 1, <<>>, {})
        n == Len(r.fieldInfos)
    IN  IF s.kind # "Struct"
        THEN [fieldInfos |-> <<>>, err |-> [type |-> "error", Err |-> "ErrNoStruct"]]
        ELSE [fieldInfos |-> [i \in 1..n |-> r.fieldInfos[n + 1 - i]], err |-> r.err]

createFieldInfos(s) ==
    IF s.kind # "Struct"
    THEN [fieldInfos |-> <<>>, err |-> [type |-> "error", Err |-> "ErrNoStruct"]]
    ELSE createFieldInfosLoop(s, 1, <<>>, {})

\* isComplete with the test position < -1
isCompleteOffByOne(infos) == \A i \in 1..Len(infos) : ~(infos[i].position < -1)

isComplete(infos) == \A i \in 1..Len(infos) : ~(infos[i].position < 0)

RECURSIVE posFrom(_, _, _)
posFrom(s, item, i) ==
    IF i > Len(s) THEN -1
    ELSE IF item = s[i] THEN i - 1
    ELSE posFrom(s, item, i + 1)

\* stringSlice.pos: the 0-based index of the first cell equal to item, or -1
pos(s, item) == posFrom(s, item, 1)

----------------------------------------------------------------------------
(* The target struct of the model: two typed columns and one ignored field. *)

TagA == <<"A">>
TagB == <<"B">>

TestStruct ==
    [kind   |-> "Struct",
     fields |-> << [name |-> "Field1", tag |-> TagA, type |-> "int"],
                   [name |-> "Field2", tag |-> TagB, type |-> "bool"],
                   [name |-> "IngnoredStruct", tag |-> <<"-">>, type |-> "bool"] >>]

Shapes == {TestStruct}

\* a header cell that names no field of the struct
TagZ == <<"Z">>

HeaderCells == {TagA, TagB, TagZ}

DataCells == { <<"1">>, <<"x">> }

----------------------------------------------------------------------------
(* The row source: m.Reader.Read() of encoding/csv, at its interface.      *)
(* FieldsPerRecord is 0 until the first record is returned and is that     *)
(* record's length afterwards; a record of another length is reported as a *)
(* *csv.ParseError (ErrFieldCount), never returned as a row.                *)

RECURSIVE RowsOver(_, _)
\* the rows of n cells drawn from a set of cells
RowsOver(cells, n) ==
    IF n = 0 THEN { <<>> }
    ELSE { Append(r, c) : r \in RowsOver(cells, n - 1), c \in cells }

RowLengths(rd) == IF rd.FieldsPerRecord = 0 THEN 1..MaxCols ELSE {rd.FieldsPerRecord}

\* The first read draws its cells from the header names, later reads from the data cells.
RowsAt(rd, n) ==
    UNION { RowsOver(IF n = 1 THEN HeaderCells ELSE DataCells, k) : k \in RowLengths(rd) }

EOF == [kind |-> "eof"]

RowResult(record) == [kind |-> "row", record |-> record]

\* a *csv.ParseError of the reader for its n-th line
ReaderParseError(n) ==
    [kind |-> "err",
     err  |-> [type |-> "*csv.ParseError",
               pe   |-> [Line |-> n, Column |-> 0,
                         Err |-> [type |-> "error",
                                  Err  |-> IF n = 1 THEN "csv.ErrBareQuote"
                                                    ELSE "csv.ErrFieldCount"]]]]

\* an error of the underlying io.Reader, passed through by the csv.Reader as it is
ReaderIOError == [kind |-> "err", err |-> [type |-> "error", Err |-> "io.ErrUnexpectedEOF"]]

\* the csv.Reader after it has returned res
ReaderAfter(rd, res) ==
    IF res.kind = "row" /\ rd.FieldsPerRecord = 0
    THEN [rd EXCEPT !.FieldsPerRecord = Len(res.record)]
    ELSE rd

----------------------------------------------------------------------------
(* Marshaler.Unmarshal. The Marshaler's fields and Unmarshal's locals are   *)
(* gathered in one record m, so that an iteration of the loop is a function *)
(* of m and of what Read returned.                                          *)

ErrHeaderNotComplete ==
    [type |-> "*csv.ParseError",
     pe   |-> [Line |-> 0, Column |-> 0,
               Err |-> [type |-> "error", Err |-> "ErrHeaderNotComplete"]]]

ErrUnsupportedCSVType == [type |-> "error", Err |-> "ErrUnsupportedCSVType"]

FieldType(s, fieldName) ==
    s.fields[CHOOSE i \in 1..Len(s.fields) : s.fields[i].name = fieldName].type

\* reflect.New(reflect.TypeOf(m.endPointStruct)): every field at its zero value
NewStruct(s) ==
    [n \in {s.fields[i].name : i \in 1..Len(s.fields)} |-> ZeroValue(FieldType(s, n))]

\* reflections.SetField: sets the field when the value's type is the field's type and
\* fails otherwise; Unmarshal drops its error, so the field then keeps its value
SetField(s, obj, fieldName, value, goType) ==
    IF FieldType(s, fieldName) = goType THEN [obj EXCEPT ![fieldName] = value] ELSE obj

\* the kinds whose case reads record[fieldInfo.position]
IndexedKinds ==
    {"Bool", "Int", "Int8", "Int16", "Int32", "Int64", "Float32", "Float64", "String"}

\* record[fieldInfo.position] panics: the index is outside the row
IndexOutOfRange(fieldInfo, record) ==
    /\ fieldInfo.kind \in IndexedKinds
    /\ (fieldInfo.position < 0 \/ fieldInfo.position >= Len(record))

\* the switch on fieldInfo.kind: the value, its Go type and the error
DecodeValue(fieldInfo, record) ==
    LET cell == record[fieldInfo.position + 1]
    IN  CASE fieldInfo.kind = "Bool" ->
                [value |-> ParseBool(cell).value, goType |-> "bool",
                 err |-> ParseBool(cell).err]
          [] fieldInfo.kind \in {"Int", "Int8", "Int16", "Int32", "Int64"} ->
                [value |-> Atoi(cell).value, goType |-> "int", err |-> Atoi(cell).err]
          [] fieldInfo.kind \in {"Float32", "Float64"} ->
                [value |-> ParseFloat(cell).value, goType |-> "float64",
                 err |-> ParseFloat(cell).err]
          [] fieldInfo.kind = "String" ->
                [value |-> cell, goType |-> "string", err |-> Nil]
          [] OTHER ->
                [value |-> Nil, goType |-> "nil", err |-> ErrUnsupportedCSVType]

RECURSIVE DecodeFieldsNoBreak(_, _, _, _, _, _)
\* the loop over m.fieldInfos without its break: the error of the last field that failed
DecodeFieldsNoBreak(s, infos, i, record, sPtr, ln) ==
    IF i > Len(infos) THEN [sPtr |-> sPtr, failed |-> FALSE, panic |-> FALSE]
    ELSE IF IndexOutOfRange(infos[i], record)
    THEN [sPtr |-> sPtr, failed |-> FALSE, panic |-> TRUE]
    ELSE LET d    == DecodeValue(infos[i], record)
             rest == DecodeFieldsNoBreak(s, infos, i + 1, record,
                         IF d.err # Nil THEN sPtr
                         ELSE SetField(s, sPtr, infos[i].fieldName, d.value, d.goType), ln)
         IN  IF rest.failed \/ rest.panic \/ d.err = Nil
             THEN rest
             ELSE [sPtr   |-> rest.sPtr,
                   failed |-> TRUE,
                   err    |-> [Column |-> infos[i].position, Line |-> ln, Err |-> d.err],
                   panic  |-> FALSE]

RECURSIVE DecodeFields(_, _, _, _, _, _)
\* the loop over m.fieldInfos from its i-th element on: the struct as far as it was
\* filled, the csv.ParseError of the first field that failed, or a panic
DecodeFields(s, infos, i, record, sPtr, ln) ==
    IF i > Len(infos) THEN [sPtr |-> sPtr, failed |-> FALSE, panic |-> FALSE]
    ELSE IF IndexOutOfRange(infos[i], record)
    THEN [sPtr |-> sPtr, failed |-> FALSE, panic |-> TRUE]
    ELSE LET d == DecodeValue(infos[i], record)
         IN  IF d.err # Nil
             THEN [sPtr   |-> sPtr,
                   failed |-> TRUE,
                   err    |-> [Column |-> infos[i].position, Line |-> ln, Err |-> d.err],
                   panic  |-> FALSE]
             ELSE DecodeFields(s, infos, i + 1, record,
                               SetField(s, sPtr, infos[i].fieldName, d.value, d.goType), ln)

\* NewMarshaler, the caller's choice of Lazy, and the entry of Unmarshal
NewMarshaler(s, lazy) ==
    [Lazy       |-> lazy,
     fieldInfos |-> createFieldInfos(s).fieldInfos,
     errors     |-> <<>>,
     structs    |-> <<>>,
     line       |-> 0,
     pc         |-> "loop",
     retStructs |-> <<>>,
     retErr     |-> Nil]

\* OnEOF returning a nil error whatever m.errors holds
OnEOFNilError(m) ==
    [m EXCEPT !.line = m.line + 1,
              !.pc = "returned",
              !.retStructs = m.structs,
              !.retErr = Nil]

\* Read returned io.EOF: leave the loop and return
OnEOF(m) ==
    [m EXCEPT !.line = m.line + 1,
              !.pc = "returned",
              !.retStructs = m.structs,
              !.retErr = IF Len(m.errors) = 0 THEN Nil
                         ELSE [type |-> "ParseErrors", errs |-> m.errors]]

\* OnReadError without the test of m.Lazy
OnReadErrorAlwaysLazy(m, err) ==
    [m EXCEPT !.line = m.line + 1,
              !.errors = IF err.type = "*csv.ParseError"
                         THEN Append(m.errors, err.pe) ELSE m.errors]

\* OnReadError with line++ placed after the test of err: a failed read is not counted
OnReadErrorUncounted(m, err) ==
    IF ~m.Lazy
    THEN [m EXCEPT !.pc = "returned",
                   !.retStructs = <<>>,
                   !.retErr = err]
    ELSE [m EXCEPT !.errors = IF err.type = "*csv.ParseError"
                              THEN Append(m.errors, err.pe) ELSE m.errors]

\* Read returned another error
OnReadError(m, err) ==
    IF ~m.Lazy
    THEN [m EXCEPT !.line = m.line + 1,
                   !.pc = "returned",
                   !.retStructs = <<>>,
                   !.retErr = err]
    ELSE [m EXCEPT !.line = m.line + 1,
                   !.errors = IF err.type = "*csv.ParseError"
                              THEN Append(m.errors, err.pe) ELSE m.errors]

\* ResolveHeader storing the loop index i of the field instead of the cell's index
ResolveHeaderByFieldIndex(infos, record) ==
    [i \in 1..Len(infos) |->
        IF pos(record, infos[i].headerName) >= 0
        THEN [infos[i] EXCEPT !.position = i - 1]
        ELSE infos[i]]

\* the positions after the header loop over m.fieldInfos
ResolveHeader(infos, record) ==
    [i \in 1..Len(infos) |->
        IF pos(record, infos[i].headerName) >= 0
        THEN [infos[i] EXCEPT !.position = pos(record, infos[i].headerName)]
        ELSE infos[i]]

\* Read returned a record and line is 1
OnHeader(m, record) ==
    LET resolved == ResolveHeader(m.fieldInfos, record)
    IN  IF ~isComplete(resolved)
        THEN [m EXCEPT !.line = m.line + 1,
                       !.fieldInfos = resolved,
                       !.pc = "returned",
                       !.retStructs = <<>>,
                       !.retErr = ErrHeaderNotComplete]
        ELSE [m EXCEPT !.line = m.line + 1, !.fieldInfos = resolved]

\* OnRow returning the field's error at once when m.Lazy is false
OnRowStrict(m, s, record) ==
    LET d == DecodeFields(s, m.fieldInfos, 1, record, NewStruct(s), m.line + 1)
    IN  IF d.panic
        THEN [m EXCEPT !.line = m.line + 1, !.pc = "panicked"]
        ELSE IF d.failed /\ ~m.Lazy
        THEN [m EXCEPT !.line = m.line + 1,
                       !.pc = "returned",
                       !.retStructs = <<>>,
                       !.retErr = [type |-> "*csv.ParseError", pe |-> d.err]]
        ELSE [m EXCEPT !.line = m.line + 1,
                       !.errors = IF d.failed THEN Append(m.errors, d.err)
                                  ELSE m.errors,
                       !.structs = Append(m.structs, d.sPtr)]

\* OnRow putting the row's error in front of m.errors
OnRowPrepending(m, s, record) ==
    LET d == DecodeFields(s, m.fieldInfos, 1, record, NewStruct(s), m.line + 1)
    IN  IF d.panic
        THEN [m EXCEPT !.line = m.line + 1, !.pc = "panicked"]
        ELSE [m EXCEPT !.line = m.line + 1,
                       !.errors = IF d.failed THEN <<d.err>> \o m.errors ELSE m.errors,
                       !.structs = Append(m.structs, d.sPtr)]

\* Read returned a record and line is not 1
OnRow(m, s, record) ==
    LET d == DecodeFields(s, m.fieldInfos, 1, record, NewStruct(s), m.line + 1)
    IN  IF d.panic
        THEN [m EXCEPT !.line = m.line + 1, !.pc = "panicked"]
        ELSE [m EXCEPT !.line = m.line + 1,
                       !.errors = IF d.failed THEN Append(m.errors, d.err)
                                  ELSE m.errors,
                       !.structs = Append(m.structs, d.sPtr)]

\* one iteration of the for loop on what Read returned
LoopBody(m, s, res) ==
    IF res.kind = "eof" THEN OnEOF(m)
    ELSE IF res.kind = "err" THEN OnReadError(m, res.err)
    ELSE IF m.line + 1 = 1 THEN OnHeader(m, res.record)
    ELSE OnRow(m, s, res.record)

RECURSIVE Unmarshal(_, _, _)
\* Unmarshal from m on the results the reader returns, until it returns or panics
Unmarshal(m, s, results) ==
    IF m.pc # "loop" \/ Len(results) = 0 THEN m
    ELSE Unmarshal(LoopBody(m, s, Head(results)), s, Tail(results))

----------------------------------------------------------------------------
(* The state machine. *)

Cur ==
    [Lazy |-> Lazy, fieldInfos |-> fieldInfos, errors |-> errors, structs |-> structs,
     line |-> line, pc |-> pc, retStructs |-> retStructs, retErr |-> retErr]

Becomes(m, res) ==
    /\ Lazy' = m.Lazy
    /\ fieldInfos' = m.fieldInfos
    /\ errors' = m.errors
    /\ structs' = m.structs
    /\ line' = m.line
    /\ pc' = m.pc
    /\ retStructs' = m.retStructs
    /\ retErr' = m.retErr
    /\ Reader' = ReaderAfter(Reader, res)
    /\ consumed' = Append(consumed, res)
    /\ UNCHANGED endPointStruct

Init ==
    /\ endPointStruct \in Shapes
    /\ createFieldInfos(endPointStruct).err = Nil
    /\ Lazy \in BOOLEAN
    /\ fieldInfos = NewMarshaler(endPointStruct, Lazy).fieldInfos
    /\ errors = <<>>
    /\ structs = <<>>
    /\ line = 0
    /\ pc = "loop"
    /\ retStructs = <<>>
    /\ retErr = Nil
    /\ Reader = [FieldsPerRecord |-> 0]
    /\ consumed = <<>>

ReadEOF ==
    /\ pc = "loop"
    /\ Becomes(OnEOF(Cur), EOF)

ReadErrorStrict ==
    /\ pc = "loop"
    /\ ~Lazy
    /\ Len(consumed) < MaxLine
    /\ \E res \in {ReaderParseError(line + 1), ReaderIOError} :
          Becomes(OnReadError(Cur, res.err), res)

ReadErrorLazy ==
    /\ pc = "loop"
    /\ Lazy
    /\ Len(consumed) < MaxLine
    /\ \E res \in {ReaderParseError(line + 1), ReaderIOError} :
          Becomes(OnReadError(Cur, res.err), res)

ReadHeader ==
    /\ pc = "loop"
    /\ line + 1 = 1
    /\ Len(consumed) < MaxLine
    /\ \E record \in RowsAt(Reader, Len(consumed) + 1) :
          Becomes(OnHeader(Cur, record), RowResult(record))

ReadRow ==
    /\ pc = "loop"
    /\ line + 1 # 1
    /\ Len(consumed) < MaxLine
    /\ \E record \in RowsAt(Reader, Len(consumed) + 1) :
          Becomes(OnRow(Cur, endPointStruct, record), RowResult(record))

Next == ReadEOF \/ ReadErrorStrict \/ ReadErrorLazy \/ ReadHeader \/ ReadRow

Spec == Init /\ [][Next]_vars

\* The same run, followed for MaxColumnsLine reads: its statements compare every run
\* with the runs on all permutations of the columns.
NextColumns ==
    \/ ReadEOF
    \/ (Len(consumed) < MaxColumnsLine /\ ReadErrorStrict)
    \/ (Len(consumed) < MaxColumnsLine /\ ReadErrorLazy)
    \/ (Len(consumed) < MaxColumnsLine /\ ReadHeader)
    \/ (Len(consumed) < MaxColumnsLine /\ ReadRow)

SpecColumns == Init /\ [][NextColumns]_vars

----------------------------------------------------------------------------
(* What a run has read, for the statements below. *)

Last == consumed[Len(consumed)]

\* the first read returned a row: the header row
HeaderRowRead == Len(consumed) >= 1 /\ consumed[1].kind = "row"

HeaderRow == consumed[1].record

\* the descriptors of the struct, as NewMarshaler stored them
Descriptors == createFieldInfos(endPointStruct).fieldInfos

\* the reads after the first that returned a row: the data rows
DataRowReads == {i \in 2..Len(consumed) : consumed[i].kind = "row"}

\* the reads after the first that failed
FailedDataReads == {i \in 2..Len(consumed) : consumed[i].kind = "err"}

\* the reads that failed with a *csv.ParseError
ParseErrorReads ==
    {i \in 1..Len(consumed) :
        consumed[i].kind = "err" /\ consumed[i].err.type = "*csv.ParseError"}

\* some field's cell of the row does not decode (positions resolved)
RowHasMalformedField(record) ==
    \E i \in 1..Len(fieldInfos) : DecodeValue(fieldInfos[i], record).err # Nil

\* the data rows read under a resolved header in which some field does not decode
MalformedRowReads ==
    {i \in DataRowReads :
        HeaderRowRead /\ isComplete(fieldInfos) /\ RowHasMalformedField(consumed[i].record)}

----------------------------------------------------------------------------
(* The claims. *)

\* C1: in strict mode (Lazy = false), as soon as a data row with a field that fails to
\* decode has been read, Unmarshal has returned no records (nil) and one error for
\* that failure: earlier records are discarded and no later row is read.
C1_StrictDecodeFailureReturns ==
    (/\ ~Lazy
     /\ HeaderRowRead
     /\ Len(consumed) >= 2
     /\ Last.kind = "row"
     /\ Len(consumed) \in MalformedRowReads)
    => (/\ pc = "returned"
        /\ retStructs = <<>>
        /\ retErr.type = "*csv.ParseError"
        /\ retErr.pe.Line = Len(consumed))

\* C2: in lazy mode every data row read contributes either a record (all fields
\* decoded) or one error entry (some field failed), never both: the records are the
\* rows that decoded, the row errors are the rows that did not.
C2_LazyRowRecordXorError ==
    (Lazy /\ HeaderRowRead /\ isComplete(fieldInfos))
    => (/\ Len(structs) = Cardinality(DataRowReads \ MalformedRowReads)
        /\ Len(errors) - Cardinality(ParseErrorReads) = Cardinality(MalformedRowReads))

\* C3: when the first read (the header) fails, Unmarshal has returned (nil, that error)
\* and has read nothing more, whatever Lazy is.
C3_HeaderReadFailureFatal ==
    (Len(consumed) >= 1 /\ consumed[1].kind = "err")
    => (/\ pc = "returned"
        /\ retStructs = <<>>
        /\ retErr = consumed[1].err
        /\ Len(consumed) = 1)

\* C4: whenever a data row (a row returned by a read after the first) has been handed
\* to the decoding loop, every descriptor's position is resolved: at least 0 and an
\* index of that row.
C4_PositionsResolvedBeforeDecoding ==
    (Len(consumed) >= 2 /\ Last.kind = "row")
    => \A i \in 1..Len(fieldInfos) :
          fieldInfos[i].position >= 0 /\ fieldInfos[i].position < Len(Last.record)

\* the header row has no cell equal to the header name of some descriptor
HeaderLacksName ==
    /\ HeaderRowRead
    /\ \E i \in 1..Len(Descriptors) :
          \A j \in 1..Len(HeaderRow) : HeaderRow[j] # Descriptors[i].headerName

\* C5: if the header row lacks the header name of some descriptor, Unmarshal has
\* returned the header-not-complete error and no records, in strict and in lazy
\* mode, and has read no data row.
C5_IncompleteHeaderFails ==
    HeaderLacksName
    => (/\ pc = "returned"
        /\ retErr = ErrHeaderNotComplete
        /\ retStructs = <<>>
        /\ structs = <<>>
        /\ Len(consumed) = 1
        /\ ~ENABLED Next)

C5_Witness ==
    /\ HeaderLacksName
    /\ Lazy
    /\ Len(HeaderRow) = 3
    /\ pc = "returned"

\* the last read failed on a data row, in strict mode
StrictDataReadFailure ==
    /\ ~Lazy
    /\ Len(consumed) >= 2
    /\ consumed[1].kind = "row"
    /\ Last.kind = "err"

\* C6: in strict mode a read failure on a data row makes Unmarshal return that same
\* error and no records, also when earlier rows were decoded, and nothing is read
\* afterwards.
C6_StrictReadFailureReturns ==
    StrictDataReadFailure
    => (/\ pc = "returned"
        /\ retStructs = <<>>
        /\ retErr = Last.err
        /\ ~ENABLED Next)

C6_Witness ==
    /\ StrictDataReadFailure
    /\ Len(structs) >= 1
    /\ pc = "returned"

\* C7: in lazy mode every failed read of a data row, whatever the error, has added one
\* entry to the errors: the entries are the failed reads and the rows that did not
\* decode.
C7_LazyReadFailureRecorded ==
    (Lazy /\ HeaderRowRead /\ isComplete(fieldInfos))
    => Len(errors) = Cardinality(FailedDataReads) + Cardinality(MalformedRowReads)

\* strict mode, and every read so far returned a row, but for a last end of input
StrictRunOfRows ==
    /\ ~Lazy
    /\ Len(consumed) >= 2
    /\ \A i \in 1..Len(consumed) :
          consumed[i].kind = "row" \/ (i = Len(consumed) /\ consumed[i].kind = "eof")

C9_EndOfInputResult ==
    (Len(consumed) >= 1 /\ Last.kind = "eof")
    => (/\ pc = "returned"
        /\ retStructs = structs
        /\ (retErr = Nil) <=> (Len(errors) = 0)
        /\ Len(errors) > 0 => retErr = [type |-> "ParseErrors", errs |-> errors]
        /\ (retErr = Nil) <=> (ParseErrorReads = {} /\ MalformedRowReads = {}))

C9_Witness ==
    /\ Len(consumed) >= 1
    /\ Last.kind = "eof"
    /\ Lazy
    /\ retErr # Nil
    /\ Len(retStructs) >= 1

\* the permutations of 1..n
Perms(n) == {p \in [1..n -> 1..n] : \A i, j \in 1..n : p[i] = p[j] => i = j}

\* a read result with the columns of its row permuted by p
PermuteResult(res, p) ==
    IF res.kind = "row" /\ Len(res.record) = Len(p)
    THEN RowResult([i \in 1..Len(p) |-> res.record[p[i]]])
    ELSE res

PermuteAll(results, p) == [i \in 1..Len(results) |-> PermuteResult(results[i], p)]

\* what Unmarshal returns for the input of this run with its columns permuted by p
PermutedRun(p) ==
    Unmarshal(NewMarshaler(endPointStruct, Lazy), endPointStruct, PermuteAll(consumed, p))

\* C10 as stated: for any permutation of the columns, applied to the header row and to
\* every data row, Unmarshal returns the same records as for the unpermuted input.
C10_ColumnOrderIndependence ==
    (pc = "returned" /\ HeaderRowRead)
    => \A p \in Perms(Len(HeaderRow)) : PermutedRun(p).retStructs = retStructs

\* every descriptor's header name is in at most one cell of the header row
HeaderNamesUnique ==
    \A i \in 1..Len(Descriptors) :
        Cardinality({j \in 1..Len(HeaderRow) : HeaderRow[j] = Descriptors[i].headerName}) <= 1

\* C10 amended: when no descriptor's header name is repeated in the header row, then
\* for any permutation of the columns, applied to the header row and to every data
\* row, Unmarshal returns the same records as for the unpermuted input.
C10_ColumnOrderIndependenceUniqueNames ==
    (pc = "returned" /\ HeaderRowRead /\ HeaderNamesUnique)
    => \A p \in Perms(Len(HeaderRow)) : PermutedRun(p).retStructs = retStructs

C10_Witness ==
    /\ pc = "returned"
    /\ HeaderRowRead
    /\ HeaderNamesUnique
    /\ HeaderRow = <<TagB, TagZ, TagA>>
    /\ Len(retStructs) = 1
    /\ retStructs[1].Field1 = 1
    /\ retStructs[1].Field2 = FALSE
    /\ \E i \in DataRowReads : consumed[i].record = << <<"x">>, <<"x">>, <<"1">> >>

----------------------------------------------------------------------------
(* Unmarshal on structs of one field of each kind, with one column of cells *)
(* that the strconv parsers tell apart.                                     *)

\* SpecKinds follows Unmarshal for at most MaxKindsLine reads of a row or a failure.
MaxKindsLine == 2

KindTypes == {"bool", "int", "int8", "int64", "float32", "float64", "string", "uint"}

\* struct { Field <type> `csv:"A"` }
KindStruct(type) ==
    [kind |-> "Struct", fields |-> << [name |-> "Field", tag |-> TagA, type |-> type] >>]

KindCells ==
    { <<"t", "r", "u", "e">>, <<"f", "a", "l", "s", "e">>, <<"1">>, <<"t">>,
      <<"T", "R", "U", "E">>, <<"x">>, <<"3", "0", "0">>, <<"-", "5">>,
      <<"1", ".", "5">>, <<>> }

InitKinds ==
    /\ endPointStruct \in {KindStruct(type) : type \in KindTypes}
    /\ createFieldInfos(endPointStruct).err = Nil
    /\ Lazy \in BOOLEAN
    /\ fieldInfos = NewMarshaler(endPointStruct, Lazy).fieldInfos
    /\ errors = <<>>
    /\ structs = <<>>
    /\ line = 0
    /\ pc = "loop"
    /\ retStructs = <<>>
    /\ retErr = Nil
    /\ Reader = [FieldsPerRecord |-> 0]
    /\ consumed = <<>>

\* the header row of one cell
ReadKindsHeader ==
    /\ pc = "loop"
    /\ line + 1 = 1
    /\ Len(consumed) < MaxKindsLine
    /\ \E record \in RowsOver(HeaderCells, 1) :
          Becomes(OnHeader(Cur, record), RowResult(record))

\* a data row of one cell
ReadKindsRow ==
    /\ pc = "loop"
    /\ line + 1 # 1
    /\ Reader.FieldsPerRecord = 1
    /\ Len(consumed) < MaxKindsLine
    /\ \E record \in RowsOver(KindCells, 1) :
          Becomes(OnRow(Cur, endPointStruct, record), RowResult(record))

NextKinds ==
    \/ ReadEOF
    \/ (Len(consumed) < MaxKindsLine /\ ReadErrorStrict)
    \/ (Len(consumed) < MaxKindsLine /\ ReadErrorLazy)
    \/ ReadKindsHeader
    \/ ReadKindsRow

SpecKinds == InitKinds /\ [][NextKinds]_vars

\* the last read returned a data row, under a resolved header
DataRowJustRead ==
    /\ HeaderRowRead
    /\ isComplete(fieldInfos)
    /\ Len(consumed) >= 2
    /\ Last.kind = "row"

\* C11: a row that decodes without a failure yields a fully populated record: for
\* every field of a supported kind (bool, the signed integers, the floats, string)
\* the emitted record's field holds the value decoded from the cell at the
\* descriptor's position.
C11_DecodedRowFullyPopulated ==
    (DataRowJustRead /\ ~RowHasMalformedField(Last.record))
    => /\ Len(structs) >= 1
       /\ \A i \in 1..Len(fieldInfos) :
             fieldInfos[i].kind \in IndexedKinds
             => structs[Len(structs)][fieldInfos[i].fieldName]
                    = DecodeValue(fieldInfos[i], Last.record).value

----------------------------------------------------------------------------
(* NewMarshaler on targets of every small shape.                            *)

\* SpecSchema builds the schema of structs of at most MaxFields fields.
MaxFields == 3

TagDash == <<"-">>
TagInnerDash == <<"a", "-", "b">>
SchemaTags == {<<>>, TagDash, TagInnerDash, TagA, TagB}
SchemaTypes == {"int", "bool"}
FieldNames == <<"F1", "F2", "F3", "F4">>

\* the structs of n fields named F1..Fn
StructsOf(n) ==
    { [kind |-> "Struct",
       fields |-> [i \in 1..n |-> [name |-> FieldNames[i], tag |-> tags[i],
                                     type |-> types[i]]]] :
        tags \in [1..n -> SchemaTags], types \in [1..n -> SchemaTypes] }

\* targets that are no struct: a pointer to a struct, an int
NonStructs == { [kind |-> k, fields |-> <<>>] : k \in {"Ptr", "Int"} }

SchemaShapes == NonStructs \cup UNION { StructsOf(n) : n \in 0..MaxFields }

InitSchema ==
    /\ endPointStruct \in SchemaShapes
    /\ Lazy \in BOOLEAN
    /\ fieldInfos = <<>>
    /\ errors = <<>>
    /\ structs = <<>>
    /\ line = 0
    /\ pc = "new"
    /\ retStructs = <<>>
    /\ retErr = Nil
    /\ Reader = [FieldsPerRecord |-> 0]
    /\ consumed = <<>>

\* NewMarshaler(endPointStruct, file): a Marshaler, or nil and the schema error
Construct ==
    /\ pc = "new"
    /\ LET r == createFieldInfos(endPointStruct)
       IN  IF r.err.type # "nil"
           THEN /\ pc' = "failed"
                /\ retErr' = r.err
                /\ fieldInfos' = <<>>
           ELSE /\ pc' = NewMarshaler(endPointStruct, Lazy).pc
                /\ retErr' = Nil
                /\ fieldInfos' = NewMarshaler(endPointStruct, Lazy).fieldInfos
    /\ UNCHANGED <<endPointStruct, Lazy, errors, structs, line, retStructs, Reader, consumed>>

NextSchema == Construct

SpecSchema == InitSchema /\ [][NextSchema]_vars

Constructed == pc = "loop" /\ line = 0 /\ consumed = <<>>

HasDescriptor(fieldName) == \E i \in 1..Len(fieldInfos) : fieldInfos[i].fieldName = fieldName

TagHasDash(tag) == \E i \in DOMAIN tag : tag[i] = "-"

\* C12: a field is excluded from the schema exactly when its annotation is the
\* single dash; every other field of a target whose schema is built has a
\* descriptor.
C12_ExcludedIffSingleDash ==
    Constructed
    => \A i \in 1..Len(endPointStruct.fields) :
          (endPointStruct.fields[i].tag = TagDash)
              <=> ~HasDescriptor(endPointStruct.fields[i].name)

\* C12 amended: a field is excluded from the schema exactly when its
\* annotation contains a dash anywhere; every other field of a target whose
\* schema is built has a descriptor.
C12_ExcludedIffTagHasDash ==
    Constructed
    => \A i \in 1..Len(endPointStruct.fields) :
          TagHasDash(endPointStruct.fields[i].tag)
              <=> ~HasDescriptor(endPointStruct.fields[i].name)

\* a schema was built for a struct with a tag that has a dash inside and a tag
\* that is the single dash, next to an ordinary field
C12_Witness ==
    /\ Constructed
    /\ \E i, j, k \in 1..Len(endPointStruct.fields) :
          /\ endPointStruct.fields[i].tag = TagInnerDash
          /\ endPointStruct.fields[j].tag = TagDash
          /\ endPointStruct.fields[k].tag = TagA
          /\ ~HasDescriptor(endPointStruct.fields[i].name)
          /\ ~HasDescriptor(endPointStruct.fields[j].name)
          /\ HasDescriptor(endPointStruct.fields[k].name)

\* a field is eligible when its annotation is not the single dash
EligibleBySkipMarker(f) == f.tag # TagDash

\* a field is eligible when its annotation has no dash
EligibleByNoDash(f) == ~TagHasDash(f.tag)

\* one descriptor per field of the sequence, in its order, position unresolved
DescriptorsOf(fields) ==
    [i \in 1..Len(fields) |-> [headerName |-> fields[i].tag,
                                fieldName  |-> fields[i].name,
                                position   |-> -1,
                                kind       |-> Kind(fields[i].type)]]

\* the fields of the sequence carry non-empty annotations, no two the same
UniqueNonEmptyTags(fields) ==
    /\ \A i \in 1..Len(fields) : fields[i].tag # <<>>
    /\ \A i, j \in 1..Len(fields) : fields[i].tag = fields[j].tag => i = j

SchemaBuilt == endPointStruct.kind = "Struct" /\ pc # "new"

\* C13: for a struct whose fields other than the ones marked with the single
\* dash carry unique, non-empty annotations, createFieldInfos returns exactly
\* one descriptor per such field, in declaration order, with its header name,
\* field name and kind and with position -1.
C13_OneDescriptorPerNonSkipField ==
    LET eligible == SelectSeq(endPointStruct.fields, EligibleBySkipMarker)
    IN  (SchemaBuilt /\ UniqueNonEmptyTags(eligible))
        => /\ pc = "loop"
           /\ fieldInfos = DescriptorsOf(eligible)

\* C13 amended: for a struct whose fields with a dash-free annotation carry
\* unique, non-empty annotations, createFieldInfos returns exactly one
\* descriptor per such field, in declaration order, with its header name, field
\* name and kind and with position -1; a field whose annotation has a dash
\* never appears.
C13_OneDescriptorPerDashFreeField ==
    LET eligible == SelectSeq(endPointStruct.fields, EligibleByNoDash)
    IN  (SchemaBuilt /\ UniqueNonEmptyTags(eligible))
        => /\ pc = "loop"
           /\ retErr = Nil
           /\ fieldInfos = DescriptorsOf(eligible)
           /\ \A i \in 1..Len(endPointStruct.fields) :
                 TagHasDash(endPointStruct.fields[i].tag)
                 => ~HasDescriptor(endPointStruct.fields[i].name)

\* a schema of two descriptors, in declaration order, around a skipped field
C13_Witness ==
    /\ SchemaBuilt
    /\ Len(endPointStruct.fields) = 3
    /\ endPointStruct.fields[1].tag = TagB
    /\ TagHasDash(endPointStruct.fields[2].tag)
    /\ endPointStruct.fields[3].tag = TagA
    /\ Len(fieldInfos) = 2
    /\ fieldInfos[1].fieldName = "F1"
    /\ fieldInfos[2].fieldName = "F3"
    /\ fieldInfos[2].position = -1

\* two eligible fields of the struct share an annotation
SharedTag(eligible(_)) ==
    \E i, j \in 1..Len(endPointStruct.fields) :
       /\ i # j
       /\ eligible(endPointStruct.fields[i])
       /\ eligible(endPointStruct.fields[j])
       /\ endPointStruct.fields[i].tag = endPointStruct.fields[j].tag

EmptyTag == \E i \in 1..Len(endPointStruct.fields) : endPointStruct.fields[i].tag = <<>>

SchemaErrors == {"duplicate csv tag name", "empty csv tag for field", "ErrNoStruct"}

\* NewMarshaler returned no Marshaler and one of the schema errors
ConstructionFailed ==
    /\ pc = "failed"
    /\ fieldInfos = <<>>
    /\ retErr.type = "error"
    /\ retErr.Err \in SchemaErrors

----------------------------------------------------------------------------
(* Unmarshal on an input of finitely many records whose reader may fail any *)
(* number of times, with the loop scheduled until it returns.               *)

\* SpecLive reads an input of at most MaxLiveLine records.
MaxLiveLine == 2

\* the width of the int that counts the lines
LineBits == 3

\* line++ on an int of LineBits bits
WrapInt(n) == ((n + 2^(LineBits - 1)) % 2^LineBits) - 2^(LineBits - 1)

\* Becomes with the width of line, and with a history of at most MaxLiveLine reads
BecomesLive(m, res) ==
    /\ Lazy' = m.Lazy
    /\ fieldInfos' = m.fieldInfos
    /\ errors' = m.errors
    /\ structs' = m.structs
    /\ line' = WrapInt(m.line)
    /\ pc' = m.pc
    /\ retStructs' = m.retStructs
    /\ retErr' = m.retErr
    /\ Reader' = ReaderAfter(Reader, res)
    /\ consumed' = IF Len(consumed) < MaxLiveLine THEN Append(consumed, res) ELSE consumed
    /\ UNCHANGED endPointStruct

\* Read returns the next record of the input: the header row or a data row
LiveReadRow ==
    /\ pc = "loop"
    /\ Len(consumed) < MaxLiveLine
    /\ \E record \in RowsAt(Reader, Len(consumed) + 1) :
          BecomesLive(LoopBody(Cur, endPointStruct, RowResult(record)), RowResult(record))

\* Read fails on the next record of the input with a *csv.ParseError
LiveReadParseError ==
    /\ pc = "loop"
    /\ Len(consumed) < MaxLiveLine
    /\ BecomesLive(LoopBody(Cur, endPointStruct, ReaderParseError(line + 1)),
                   ReaderParseError(line + 1))

\* Read fails with an error of the underlying io.Reader, as often as it is called
LiveReadIOError ==
    /\ pc = "loop"
    /\ BecomesLive(LoopBody(Cur, endPointStruct, ReaderIOError), ReaderIOError)

LiveReadEOF ==
    /\ pc = "loop"
    /\ BecomesLive(LoopBody(Cur, endPointStruct, EOF), EOF)

NextLive ==
    \/ LiveReadRow
    \/ LiveReadParseError
    \/ LiveReadIOError
    \/ LiveReadEOF

\* the for loop runs on as long as it has not returned
SpecLive == Init /\ [][NextLive]_vars /\ WF_vars(NextLive)

\* C15: Unmarshal always terminates: in strict and in lazy mode, whatever the
\* reads return (a row, a read failure, end of input), the loop eventually
\* leaves the reading state and returns.
C15_UnmarshalTerminates == <>(pc # "loop")

----------------------------------------------------------------------------
(* Decoding of one row. *)

\* the first descriptor, in schema order, whose cell of the record does not decode
FirstFailing(record) ==
    CHOOSE i \in 1..Len(fieldInfos) :
        /\ DecodeValue(fieldInfos[i], record).err # Nil
        /\ \A j \in 1..(i - 1) : DecodeValue(fieldInfos[j], record).err = Nil

\* the step reads a data row under a resolved header, without a panic
ReadsDataRow ==
    /\ pc = "loop"
    /\ line >= 1
    /\ isComplete(fieldInfos)
    /\ Len(consumed') = Len(consumed) + 1
    /\ consumed'[Len(consumed')].kind = "row"
    /\ pc' = "loop"

\* C16: decoding a row stops at the first failing field in schema order: reading
\* a data row adds at most one error entry, and when some cell is malformed
\* exactly one, whose Column is the resolved position of the first descriptor in
\* schema order whose cell fails, whose Line is the row's line number and whose
\* Err is that cell's decode error.
C16_FirstFailingFieldInSchemaOrder ==
    [][ReadsDataRow =>
          LET record == consumed'[Len(consumed')].record
          IN  IF RowHasMalformedField(record)
              THEN LET f == fieldInfos[FirstFailing(record)]
                   IN  errors' = Append(errors,
                                        [Column |-> f.position,
                                         Line   |-> Len(consumed'),
                                         Err    |-> DecodeValue(f, record).err])
              ELSE errors' = errors]_vars

\* header "B;A" and a row of two malformed cells: one entry, for the column of
\* Field1, which is the second column
C16_Witness ==
    /\ HeaderRowRead
    /\ HeaderRow = <<TagB, TagA>>
    /\ Len(consumed) = 2
    /\ Last.kind = "row"
    /\ \A i \in 1..Len(fieldInfos) : DecodeValue(fieldInfos[i], Last.record).err # Nil
    /\ Len(errors) = 1
    /\ errors[1].Column = 1
    /\ errors[1].Line = 2

----------------------------------------------------------------------------
(* Decoding by kind. *)

\* the last read returned a data row for a struct whose field is of one of the types
KindRowJustRead(types) ==
    /\ DataRowJustRead
    /\ Len(endPointStruct.fields) = 1
    /\ endPointStruct.fields[1].type \in types
    /\ Len(Last.record) = 1

\* the last read's row added an error entry for its line
LastRowFailed ==
    /\ Len(errors) >= 1
    /\ errors[Len(errors)].Line = Len(consumed)

TrueFalseLiterals == { <<"t", "r", "u", "e">>, <<"f", "a", "l", "s", "e">> }

\* the literals strconv.ParseBool documents: 1, t, T, TRUE, true, True, 0, f, F,
\* FALSE, false, False
GoBoolLiterals ==
    { <<"1">>, <<"t">>, <<"T">>, <<"T", "R", "U", "E">>, <<"t", "r", "u", "e">>,
      <<"T", "r", "u", "e">>, <<"0">>, <<"f">>, <<"F">>, <<"F", "A", "L", "S", "E">>,
      <<"f", "a", "l", "s", "e">>, <<"F", "a", "l", "s", "e">> }

\* C17: a bool field decodes only for the literals "true" and "false"; a row with
\* any other cell text is a decode failure.
C17_BoolOnlyTrueFalse ==
    KindRowJustRead({"bool"}) => (Last.record[1] \in TrueFalseLiterals <=> ~LastRowFailed)

\* C17 amended: a bool field decodes exactly for the twelve literals of
\* strconv.ParseBool, to true for 1, t, T, TRUE, true, True and to false for the
\* others; a row with any other cell text is a decode failure.
C17_BoolGoLiterals ==
    KindRowJustRead({"bool"})
    => /\ Last.record[1] \in GoBoolLiterals <=> ~LastRowFailed
       /\ Last.record[1] \in GoBoolLiterals
          => structs[Len(structs)].Field
                 = (Last.record[1] \in { <<"1">>, <<"t">>, <<"T">>, <<"T", "R", "U", "E">>,
                                         <<"t", "r", "u", "e">>, <<"T", "r", "u", "e">> })

\* a bool field decoded the cell "t" to true
C17_Witness ==
    /\ KindRowJustRead({"bool"})
    /\ Last.record[1] = <<"t">>
    /\ ~LastRowFailed
    /\ structs[Len(structs)].Field = TRUE

SignedIntTypes == {"int", "int8", "int64"}

\* the cell is a base-10 integer within the range of the integer type
FitsIntType(type, cell) ==
    /\ Atoi(cell).err = Nil
    /\ type = "int8" => (Atoi(cell).value >= -128 /\ Atoi(cell).value <= 127)

\* C18: a signed-integer field fails to decode for every cell that is not a
\* base-10 integer or whose value is outside the range of the field's type: such
\* a row adds an error entry for its line and no record.
C18_IntOutOfRangeFails ==
    (/\ KindRowJustRead(SignedIntTypes)
     /\ Len(consumed) = 2
     /\ ~FitsIntType(endPointStruct.fields[1].type, Last.record[1]))
    => /\ LastRowFailed
       /\ structs = <<>>

----------------------------------------------------------------------------
(* Unmarshal on an input with blank lines: the csv.Reader skips them, and   *)
(* the Line of its *csv.ParseError is the line of the input it stands on.   *)

\* SpecLines follows Unmarshal for at most MaxLinesLine reads of a record.
MaxLinesLine == 3

\* the input has at most MaxBlankLines blank lines
MaxBlankLines == 2

\* the reads that took a record, well-formed or not, off the input
RecordReads ==
    {i \in 1..Len(consumed) :
        consumed[i].kind = "row"
        \/ (consumed[i].kind = "err" /\ consumed[i].err.type = "*csv.ParseError")}

\* the lines of the input the next record may stand on, after the blank lines
\* the reader skips
NextNumLines ==
    {Reader.numLine + 1 + b :
        b \in 0..(MaxBlankLines - (Reader.numLine - Cardinality(RecordReads)))}

\* the *csv.ParseError of the reader for the record on line numLine of the input
ParseErrorAt(numLine) ==
    [ReaderParseError(line + 1) EXCEPT !.err.pe.Line = numLine]

\* Becomes, with the reader standing on line numLine of the input
BecomesLines(m, res, numLine) ==
    /\ Lazy' = m.Lazy
    /\ fieldInfos' = m.fieldInfos
    /\ errors' = m.errors
    /\ structs' = m.structs
    /\ line' = m.line
    /\ pc' = m.pc
    /\ retStructs' = m.retStructs
    /\ retErr' = m.retErr
    /\ Reader' = [ReaderAfter(Reader, res) EXCEPT !.numLine = numLine]
    /\ consumed' = Append(consumed, res)
    /\ UNCHANGED endPointStruct

InitLines ==
    /\ endPointStruct \in Shapes
    /\ createFieldInfos(endPointStruct).err = Nil
    /\ Lazy \in BOOLEAN
    /\ fieldInfos = NewMarshaler(endPointStruct, Lazy).fieldInfos
    /\ errors = <<>>
    /\ structs = <<>>
    /\ line = 0
    /\ pc = "loop"
    /\ retStructs = <<>>
    /\ retErr = Nil
    /\ Reader = [FieldsPerRecord |-> 0, numLine |-> 0]
    /\ consumed = <<>>

\* the first Read returns a row of two cells
LinesReadHeader ==
    /\ pc = "loop"
    /\ line + 1 = 1
    /\ Len(consumed) < MaxLinesLine
    /\ \E numLine \in NextNumLines, record \in RowsOver(HeaderCells, 2) :
          BecomesLines(OnHeader(Cur, record), RowResult(record), numLine)

\* a later Read returns a row
LinesReadRow ==
    /\ pc = "loop"
    /\ line + 1 # 1
    /\ Len(consumed) < MaxLinesLine
    /\ \E numLine \in NextNumLines,
          record \in RowsOver(DataCells, IF Reader.FieldsPerRecord = 0 THEN 2
                                         ELSE Reader.FieldsPerRecord) :
          BecomesLines(OnRow(Cur, endPointStruct, record), RowResult(record), numLine)

\* Read fails on a record with a *csv.ParseError
LinesReadParseError ==
    /\ pc = "loop"
    /\ Len(consumed) < MaxLinesLine
    /\ \E numLine \in NextNumLines :
          BecomesLines(OnReadError(Cur, ParseErrorAt(numLine).err), ParseErrorAt(numLine),
                       numLine)

\* Read fails with an error of the underlying io.Reader
LinesReadIOError ==
    /\ pc = "loop"
    /\ Len(consumed) < MaxLinesLine
    /\ BecomesLines(OnReadError(Cur, ReaderIOError.err), ReaderIOError, Reader.numLine)

LinesReadEOF ==
    /\ pc = "loop"
    /\ \E numLine \in NextNumLines \cup {Reader.numLine} :
          BecomesLines(OnEOF(Cur), EOF, numLine)

NextLines ==
    \/ LinesReadHeader
    \/ LinesReadRow
    \/ LinesReadParseError
    \/ LinesReadIOError
    \/ LinesReadEOF

SpecLines == InitLines /\ [][NextLines]_vars

\* the reads that added an entry to the errors: in lazy mode the reads that failed
\* with a *csv.ParseError, in both modes the rows with a malformed cell
ErrorSources == (IF Lazy THEN ParseErrorReads ELSE {}) \cup MalformedRowReads

\* the place in the errors of the entry of read i, in the order of the reads
Rank(i) == Cardinality({j \in ErrorSources : j <= i})

ErrorsInReadOrder ==
    /\ Len(errors) = Cardinality(ErrorSources)
    /\ \A i \in ErrorSources :
          IF consumed[i].kind = "err"
          THEN errors[Rank(i)] = consumed[i].err.pe
          ELSE /\ errors[Rank(i)].Line = i
               /\ errors[Rank(i)].Err
                      = DecodeValue(fieldInfos[FirstFailing(consumed[i].record)],
                                    consumed[i].record).err

\* C20: the errors are in row encounter order (entries are only appended, so of
\* two entries the earlier belongs to the earlier read), and the entries' line
\* numbers are non-decreasing.
C20_ErrorsOrderedLinesMonotone ==
    (pc # "panicked")
    => /\ ErrorsInReadOrder
       /\ \A a, b \in 1..Len(errors) : a < b => errors[a].Line <= errors[b].Line

\* the entries the decoding of rows recorded, and the entries of the reader
DecodeEntries == {Rank(i) : i \in MalformedRowReads}

\* C20 amended: the errors are in row encounter order (entries are only
\* appended, so of two entries the earlier belongs to the earlier read); the line
\* numbers of the entries recorded for rows that failed to decode are strictly
\* increasing, and an entry of the reader keeps the reader's own line number.
C20_ErrorsOrderedDecodeLinesMonotone ==
    (pc # "panicked")
    => /\ ErrorsInReadOrder
       /\ \A a, b \in DecodeEntries : a < b => errors[a].Line < errors[b].Line

\* lazy mode: the reader's entry for a record on line 4 of the input, behind two
\* blank lines, stands before the entry of the row of the third read
C20_Witness ==
    /\ Lazy
    /\ Len(consumed) = 3
    /\ Len(errors) = 2
    /\ consumed[2].kind = "err"
    /\ errors[1] = consumed[2].err.pe
    /\ errors[1].Line = 4
    /\ 3 \in MalformedRowReads
    /\ errors[2].Line = 3

====
